---- MODULE Spec2Model ----
(***************************************************************************)
(* Model of the vulnerability summary builder (buildSummary,               *)
(* renderMarkdown), of MultipartClient.submitReport and of                 *)
(* DependencyHealthChecker.runFullCheck.                                   *)
(*                                                                         *)
(* Representation:                                                         *)
(*  - a JavaScript string is a sequence of one-character strings, so that  *)
(*    toUpperCase and the package-URL regular expression are computed      *)
(*    character by character;                                              *)
(*  - a finding is a function whose DOMAIN is the set of fields it         *)
(*    carries (an absent field is absent from the DOMAIN);                 *)
(*  - a plain JavaScript object is the sequence of its [k, v] entries in   *)
(*    property enumeration order (integer-like keys ascending, then the    *)
(*    other keys in insertion order);                                      *)
(*  - a confidence is a number of thousandths (0.8 is 800).                *)
(***************************************************************************)
EXTENDS Integers, Sequences, FiniteSets, TLC

VARIABLES results, pc, now, summary, markdown, renders, submit, health

vars == <<results, pc, now, summary, markdown, renders, submit, health>>

(* ------------------------------ bounds --------------------------------- *)
MaxLen == 2
MaxRankLen == 11
MaxMinority == 2
MaxClock == 2
NumReports == 2
MaxFiles == 1
NumErrors == 2
MaxDeps == 2

(* ------------------------- program constants --------------------------- *)
TakeLimit == 10
DefaultRank == 99
HighThreshold == 800
MediumThreshold == 500
retries == 3
retryDelay == 1000

(* ------------------------------ strings -------------------------------- *)
LowerLetters == <<"a","b","c","d","e","f","g","h","i","j","k","l","m",
                  "n","o","p","q","r","s","t","u","v","w","x","y","z">>
UpperLetters == <<"A","B","C","D","E","F","G","H","I","J","K","L","M",
                  "N","O","P","Q","R","S","T","U","V","W","X","Y","Z">>
Digits == <<"0","1","2","3","4","5","6","7","8","9">>

Range(s) == {s[i] : i \in DOMAIN s}

LowerSet == Range(LowerLetters)
UpperSet == Range(UpperLetters)
DigitSet == Range(Digits)

\* the upper-case letter of each lower-case letter
UpperOf ==
  [c \in LowerSet |->
     UpperLetters[CHOOSE i \in DOMAIN LowerLetters : LowerLetters[i] = c]]

toUpperChar(c) == IF c \in LowerSet THEN UpperOf[c] ELSE c

toUpperCase(s) == [i \in 1..Len(s) |-> toUpperChar(s[i])]

IsDigit(c) == c \in DigitSet

DigitValue == [c \in DigitSet |-> (CHOOSE i \in DOMAIN Digits : Digits[i] = c) - 1]

DigitVal(c) == DigitValue[c]

\* the regular expression class \w
WordChars == LowerSet \cup UpperSet \cup DigitSet \cup {"_"}

IsWordChar(c) == c \in WordChars

sCRITICAL == <<"C","R","I","T","I","C","A","L">>
sHIGH == <<"H","I","G","H">>
sMEDIUM == <<"M","E","D","I","U","M">>
sLOW == <<"L","O","W">>
sUNKNOWN == <<"U","N","K","N","O","W","N">>
sUNCLASSIFIED == <<"U","N","C","L","A","S","S","I","F","I","E","D">>
sSAFE_PATCH == <<"S","A","F","E","_","P","A","T","C","H">>
sMINOR_BUMP == <<"M","I","N","O","R","_","B","U","M","P">>
sMAJOR_BUMP_SAFE == <<"M","A","J","O","R","_","B","U","M","P","_","S","A","F","E">>
sunknown == <<"u","n","k","n","o","w","n">>
sEmpty == << >>

(* --------------------------- plain objects ----------------------------- *)
\* ECMAScript array index: canonical decimal string ("0", or no leading 0)
IsArrayIndex(k) ==
  /\ Len(k) > 0
  /\ \A i \in 1..Len(k) : IsDigit(k[i])
  /\ (Len(k) = 1 \/ k[1] # "0")

RECURSIVE ToNumber(_)
ToNumber(k) ==
  IF Len(k) = 0 THEN 0
  ELSE 10 * ToNumber(SubSeq(k, 1, Len(k) - 1)) + DigitVal(k[Len(k)])

hasOwnProperty(obj, k) == \E i \in 1..Len(obj) : obj[i].k = k

objGet(obj, k, default) ==
  IF hasOwnProperty(obj, k)
  THEN obj[CHOOSE i \in 1..Len(obj) : obj[i].k = k].v
  ELSE default

objKeys(obj) == [i \in 1..Len(obj) |-> obj[i].k]

\* obj[k] = v: an existing property keeps its place; a new integer-like key
\* is enumerated among the integer-like keys in ascending numeric order,
\* before every other key; any other new key is enumerated last.
objSet(obj, k, v) ==
  IF hasOwnProperty(obj, k)
  THEN [i \in 1..Len(obj) |-> IF obj[i].k = k THEN [k |-> k, v |-> v] ELSE obj[i]]
  ELSE IF IsArrayIndex(k)
  THEN LET before == SelectSeq(obj, LAMBDA e :
                        IsArrayIndex(e.k) /\ ToNumber(e.k) < ToNumber(k))
           after == SelectSeq(obj, LAMBDA e :
                        ~(IsArrayIndex(e.k) /\ ToNumber(e.k) < ToNumber(k)))
       IN  before \o <<[k |-> k, v |-> v]>> \o after
  ELSE Append(obj, [k |-> k, v |-> v])

(* ------------------------------ lodash --------------------------------- *)
get(r, path, default) == IF path \in DOMAIN r THEN r[path] ELSE default

has(r, path) == path \in DOMAIN r

size(coll) == Len(coll)

\* _.countBy, given the iteratee's key for each element
RECURSIVE countBy(_)
countBy(keys) ==
  IF Len(keys) = 0 THEN << >>
  ELSE LET acc == countBy(SubSeq(keys, 1, Len(keys) - 1))
           k == keys[Len(keys)]
       IN  objSet(acc, k, objGet(acc, k, 0) + 1)

\* _.groupBy, given the iteratee's key for each element
RECURSIVE groupBy(_, _)
groupBy(keys, coll) ==
  IF Len(keys) = 0 THEN << >>
  ELSE LET n == Len(keys)
           acc == groupBy(SubSeq(keys, 1, n - 1), coll)
           k == keys[n]
       IN  objSet(acc, k, Append(objGet(acc, k, << >>), coll[n]))

RECURSIVE mapEntries(_, _, _)
mapEntries(obj, vals, n) ==
  IF n = 0 THEN << >>
  ELSE objSet(mapEntries(obj, vals, n - 1), obj[n].k, vals[n])

\* _.mapValues, given the iteratee's value for each entry: a new object,
\* filled key by key in enumeration order
mapValues(obj, vals) == mapEntries(obj, vals, Len(obj))

RECURSIVE defaultsFrom(_, _, _)
defaultsFrom(obj, source, n) ==
  IF n = 0 THEN obj
  ELSE LET acc == defaultsFrom(obj, source, n - 1)
       IN  IF hasOwnProperty(acc, source[n].k) THEN acc
           ELSE objSet(acc, source[n].k, source[n].v)

defaults(obj, source) == defaultsFrom(obj, source, Len(source))

\* sort entries [criteria, index, value]: by criteria, ties by index
compareAscending(a, b) ==
  \/ a.criteria < b.criteria
  \/ a.criteria = b.criteria /\ a.index < b.index

RECURSIVE insertSorted(_, _)
insertSorted(sorted, e) ==
  IF Len(sorted) = 0 THEN <<e>>
  ELSE IF compareAscending(e, sorted[Len(sorted)])
       THEN Append(insertSorted(SubSeq(sorted, 1, Len(sorted) - 1), e),
                   sorted[Len(sorted)])
       ELSE Append(sorted, e)

RECURSIVE baseSortBy(_)
baseSortBy(entries) ==
  IF Len(entries) = 0 THEN << >>
  ELSE insertSorted(baseSortBy(SubSeq(entries, 1, Len(entries) - 1)),
                    entries[Len(entries)])

\* _.sortBy, given the iteratee's criterion for each element
sortBy(coll, criteria) ==
  LET entries == [i \in 1..Len(coll) |->
                    [criteria |-> criteria[i], index |-> i, value |-> coll[i]]]
      sorted == baseSortBy(entries)
  IN  [i \in 1..Len(sorted) |-> sorted[i].value]

take(coll, n) == SubSeq(coll, 1, IF Len(coll) < n THEN Len(coll) ELSE n)

\* _.map(coll, path): the property of each element; undefined is << >>, a
\* defined value x is <<x>>
mapProperty(coll, path) ==
  [i \in 1..Len(coll) |-> IF has(coll[i], path) THEN <<coll[i][path]>> ELSE << >>]

\* a falsey value: undefined, or the number 0
isFalsey(o) == o = << >> \/ o[1] = 0

isTruthy(o) == ~isFalsey(o)

\* _.compact: the truthy values, in order
compact(coll) ==
  LET kept == SelectSeq(coll, isTruthy)
  IN  [i \in 1..Len(kept) |-> kept[i][1]]

RECURSIVE sum(_)
sum(nums) ==
  IF Len(nums) = 0 THEN 0 ELSE sum(SubSeq(nums, 1, Len(nums) - 1)) + nums[Len(nums)]

min(nums) == CHOOSE m \in Range(nums) : \A x \in Range(nums) : m <= x

\* _.round(_.mean(nums), 2), in thousandths: the mean sum/n is rounded to
\* the nearest hundredth, a half rounding up (Math.round)
roundMean2(nums) == 10 * ((sum(nums) + 5 * Len(nums)) \div (10 * Len(nums)))

(* ---------------------------- buildSummary ----------------------------- *)
\* mutant: the severity is counted as written, without toUpperCase
severityKeyRaw(r) == get(r, "severity", sUNKNOWN)

severityKey(r) == toUpperCase(get(r, "severity", sUNKNOWN))

classificationKey(r) == get(r, "classification", sUNCLASSIFIED)

\* the end of the longest run of \w characters that starts at position i
\* (i - 1 when s[i] is not a \w character)
RECURSIVE wordRunEnd(_, _)
wordRunEnd(s, i) ==
  IF i <= Len(s) /\ IsWordChar(s[i]) THEN wordRunEnd(s, i + 1) ELSE i - 1

\* mutant: the pattern without its closing slash, /^pkg:(\w+)/
purlMatchNoSlash(purl) ==
  LET e == wordRunEnd(purl, 5)
  IN  IF Len(purl) >= 5 /\ SubSeq(purl, 1, 4) = <<"p","k","g",":">> /\ e >= 5
      THEN <<SubSeq(purl, 5, e)>>
      ELSE << >>

\* purl.match(/^pkg:(\w+)\//): <<capture>> on a match, << >> (null) otherwise
purlMatch(purl) ==
  LET e == wordRunEnd(purl, 5)
  IN  IF /\ Len(purl) >= 6
         /\ SubSeq(purl, 1, 4) = <<"p","k","g",":">>
         /\ e >= 5
         /\ e + 1 <= Len(purl)
         /\ purl[e + 1] = "/"
      THEN <<SubSeq(purl, 5, e)>>
      ELSE << >>

ecosystemKey(r) ==
  LET purl == get(r, "packageUrl", sEmpty)
      match == purlMatch(purl)
  IN  IF match # << >> THEN match[1] ELSE sunknown

isCritical(i) == has(i, "severity") /\ i.severity = sCRITICAL

isHigh(i) == has(i, "severity") /\ i.severity = sHIGH

FixableClassifications == {sSAFE_PATCH, sMINOR_BUMP, sMAJOR_BUMP_SAFE}

\* mutant: MAJOR_BUMP_SAFE is not counted as fixable
isFixableNarrow(i) ==
  has(i, "classification") /\ i.classification \in {sSAFE_PATCH, sMINOR_BUMP}

isFixable(i) ==
  has(i, "classification") /\ i.classification \in FixableClassifications

ecosystemSummary(items, ecosystem) ==
  [ecosystem |-> ecosystem,
   count |-> size(items),
   critical |-> Len(SelectSeq(items, isCritical)),
   high |-> Len(SelectSeq(items, isHigh)),
   fixable |-> Len(SelectSeq(items, isFixable))]

UrgentSeverities == {sCRITICAL, sHIGH}

isUrgent(r) == toUpperCase(get(r, "severity", sEmpty)) \in UrgentSeverities

ActionableClassifications == {sSAFE_PATCH, sMINOR_BUMP}

\* mutant: the fixable set is used for ranking too
isActionableWide(r) ==
  has(r, "classification") /\ r.classification \in FixableClassifications

isActionable(r) ==
  has(r, "classification") /\ r.classification \in ActionableClassifications

severityRank(r) ==
  LET sev == toUpperCase(get(r, "severity", sEmpty))
  IN  IF sev = sCRITICAL THEN 0 ELSE IF sev = sHIGH THEN 1 ELSE DefaultRank

\* the chain before .take(10)
actionRanked(rs) ==
  LET selected == SelectSeq(SelectSeq(rs, isUrgent), isActionable)
  IN  sortBy(selected, [i \in 1..Len(selected) |-> severityRank(selected[i])])

\* mutant: truncation before the sort
actionRequiredTakeFirst(rs) ==
  LET selected == take(SelectSeq(SelectSeq(rs, isUrgent), isActionable), TakeLimit)
  IN  sortBy(selected, [i \in 1..Len(selected) |-> severityRank(selected[i])])

actionRequired(rs) == take(actionRanked(rs), TakeLimit)

ItemSource ==
  [id |-> "cveId", package |-> "packageUrl", severity |-> "severity",
   classification |-> "classification", fixVersion |-> "fixVersion"]

\* the projection of a ranked finding; a property whose value would be
\* undefined is left out
actionItem(r) ==
  LET present == {f \in DOMAIN ItemSource : has(r, ItemSource[f])}
  IN  [f \in present |-> r[ItemSource[f]]]

confidencesOf(rs) == compact(mapProperty(rs, "confidence"))

avgConfidence(confidences) ==
  IF Len(confidences) = 0 THEN 0 ELSE roundMean2(confidences)

minConfidence(confidences) ==
  IF Len(confidences) = 0 THEN 0 ELSE min(confidences)

isHighConfidence(c) == c >= HighThreshold

isMediumConfidence(c) == c >= MediumThreshold /\ c < HighThreshold

isLowConfidence(c) == c < MediumThreshold

byEcosystemOf(rs) == groupBy([i \in 1..Len(rs) |-> ecosystemKey(rs[i])], rs)

SeverityDefaults ==
  <<[k |-> sCRITICAL, v |-> 0], [k |-> sHIGH, v |-> 0],
    [k |-> sMEDIUM, v |-> 0], [k |-> sLOW, v |-> 0]>>

buildSummary(rs, timestamp) ==
  LET total == size(rs)
      bySeverity == countBy([i \in 1..Len(rs) |-> severityKey(rs[i])])
      byClassification == countBy([i \in 1..Len(rs) |-> classificationKey(rs[i])])
      byEcosystem == byEcosystemOf(rs)
      ecosystemSummaries ==
        mapValues(byEcosystem,
                  [n \in 1..Len(byEcosystem) |->
                     ecosystemSummary(byEcosystem[n].v, byEcosystem[n].k)])
      ranked == actionRequired(rs)
      confidences == confidencesOf(rs)
  IN  [generatedAt |-> timestamp,
       overview |->
         [totalVulnerabilities |-> total,
          bySeverity |-> defaults(bySeverity, SeverityDefaults),
          byClassification |-> byClassification],
       ecosystems |-> ecosystemSummaries,
       actionRequired |->
         [count |-> Len(ranked),
          items |-> [i \in 1..Len(ranked) |-> actionItem(ranked[i])]],
       confidence |->
         [average |-> avgConfidence(confidences),
          minimum |-> minConfidence(confidences),
          distribution |->
            [high |-> Len(SelectSeq(confidences, isHighConfidence)),
             medium |-> Len(SelectSeq(confidences, isMediumConfidence)),
             low |-> Len(SelectSeq(confidences, isLowConfidence))]]]

(* --------------------------- renderMarkdown ---------------------------- *)
\* A line is the sequence of the pieces of its template literal (a backtick
\* of the text is written ', the dash and the arrow in ASCII).
sundefined == <<"u","n","d","e","f","i","n","e","d">>
sNA == <<"N","/","A">>

classificationLine(e) == <<"- **", e.k, "**: ", e.v>>

ecosystemLine(eco) ==
  <<"- **", eco.ecosystem, "**: ", eco.count, " vulns (", eco.fixable, " fixable)">>

itemLine(item) ==
  <<"- '", get(item, "id", sundefined), "' in '", get(item, "package", sundefined),
    "' - ", get(item, "severity", sundefined), " / ",
    get(item, "classification", sundefined), " -> fix: ",
    IF has(item, "fixVersion") /\ item.fixVersion # sEmpty
    THEN item.fixVersion ELSE sNA>>

\* mutant: the footer line carries the timestamp as well
confidenceLineStamped(s) ==
  <<"_Confidence: avg ", s.confidence.average, " | min ", s.confidence.minimum,
    " | at ", s.generatedAt, "_">>

confidenceLine(s) ==
  <<"_Confidence: avg ", s.confidence.average, " | min ", s.confidence.minimum, "_">>

generatedLine(s) == <<"_Generated: ", s.generatedAt, "_">>

renderMarkdown(s) ==
  LET ov == s.overview
  IN  <<  <<"# Vulnerability Scan Summary">>,
          <<"">>,
          <<"**", ov.totalVulnerabilities, "** vulnerabilities found | **",
            objGet(ov.bySeverity, sCRITICAL, 0), "** critical | **",
            objGet(ov.bySeverity, sHIGH, 0), "** high">>,
          <<"">>,
          <<"## By Classification">> >>
      \o [i \in 1..Len(ov.byClassification) |->
            classificationLine(ov.byClassification[i])]
      \o << <<"">>, <<"## Ecosystems">> >>
      \o [i \in 1..Len(s.ecosystems) |-> ecosystemLine(s.ecosystems[i].v)]
      \o << <<"">>, <<"## Action Required (", s.actionRequired.count, ")">> >>
      \o [i \in 1..Len(s.actionRequired.items) |-> itemLine(s.actionRequired.items[i])]
      \o << <<"">>, <<"---">>, confidenceLine(s), generatedLine(s) >>

(* ------------------------------- inputs -------------------------------- *)
PKG == <<"p","k","g",":">>
purlNpm == PKG \o <<"n","p","m","/","f","o","o">>
purlPypi == PKG \o <<"p","y","p","i","/","b","a","z">>
purlSeven == PKG \o <<"7","/","x">>
purlTen == PKG \o <<"1","0","/","x">>
purlHyphen == PKG \o <<"m","y","-","e","/","x">>
purlNoScheme == <<"n","p","m","/","f","o","o">>
purlNoSlash == PKG \o <<"n","p","m">>
sNO_FIX == <<"N","O","_","F","I","X">>
scritical == <<"c","r","i","t","i","c","a","l">>
sHigh == <<"H","i","g","h">>
sInfo == <<"i","n","f","o">>
sVersion == <<"1",".","2",".","3">>

Pool ==
  { [severity |-> sCRITICAL, classification |-> sSAFE_PATCH, packageUrl |-> purlNpm,
     confidence |-> 900, fixVersion |-> sVersion],
    [severity |-> sHIGH, classification |-> sMAJOR_BUMP_SAFE, packageUrl |-> purlNpm,
     confidence |-> 600],
    [severity |-> sLOW, classification |-> sNO_FIX, packageUrl |-> purlPypi,
     confidence |-> 300],
    [severity |-> scritical, classification |-> sMINOR_BUMP, packageUrl |-> purlPypi,
     fixVersion |-> sVersion],
    [severity |-> sHIGH, classification |-> sSAFE_PATCH, packageUrl |-> purlSeven,
     confidence |-> 0],
    [packageUrl |-> purlNoSlash],
    [severity |-> sHigh, classification |-> sMINOR_BUMP, packageUrl |-> purlNoScheme,
     confidence |-> 330],
    [severity |-> sMEDIUM, classification |-> sSAFE_PATCH, packageUrl |-> sEmpty,
     confidence |-> 800, fixVersion |-> sEmpty],
    [severity |-> sCRITICAL, classification |-> sNO_FIX, packageUrl |-> purlHyphen,
     confidence |-> 500],
    [severity |-> sCRITICAL, classification |-> sMINOR_BUMP, packageUrl |-> purlTen,
     confidence |-> 120],
    [severity |-> sInfo, classification |-> sMAJOR_BUMP_SAFE, confidence |-> 1000] }

\* two findings that are both ranked, for inputs longer than the take limit
rankedCritical ==
  [severity |-> sCRITICAL, classification |-> sSAFE_PATCH, packageUrl |-> purlNpm,
   confidence |-> 900, fixVersion |-> sVersion]

rankedHigh ==
  [severity |-> sHIGH, classification |-> sMINOR_BUMP, packageUrl |-> purlNpm,
   confidence |-> 600]

\* the inputs of length n made of one of the two ranked findings, except at
\* most MaxMinority positions that hold the other one
LongInputs(n) ==
  LET places == {P \in SUBSET (1..n) : Cardinality(P) <= MaxMinority}
  IN  {[i \in 1..n |-> IF i \in P THEN rankedCritical ELSE rankedHigh] : P \in places}
        \cup {[i \in 1..n |-> IF i \in P THEN rankedHigh ELSE rankedCritical] : P \in places}

\* the finding at position i carries the identifier i
withIds(fs) == [i \in 1..Len(fs) |-> ("cveId" :> i) @@ fs[i]]

Inputs ==
  { withIds(fs) : fs \in UNION {[1..n -> Pool] : n \in 0..MaxLen}
                       \cup UNION {LongInputs(n) : n \in 0..MaxRankLen} }

(* ---------------------------- state machine ---------------------------- *)
NoSummary == << >>

\* no submitReport call has been made
SubmitIdle ==
  [pc |-> "idle", form |-> << >>, attempt |-> 0, lastError |-> 0, inFlight |-> 0,
   posts |-> << >>, sleeps |-> << >>, outcome |-> [kind |-> "none"]]

\* no runFullCheck call has been made
HealthIdle ==
  [pc |-> "idle", entries |-> << >>, next |-> 0, results |-> << >>,
   errors |-> << >>, report |-> << >>]

Init ==
  /\ results \in Inputs
  /\ pc = "init"
  /\ now = 0
  /\ summary = NoSummary
  /\ markdown = << >>
  /\ renders = << >>
  /\ submit = SubmitIdle
  /\ health = HealthIdle

\* buildSummary(results); new Date() reads a clock that has advanced
BuildSummary ==
  /\ pc \in {"init", "rendered"}
  /\ \E t \in (now + 1)..MaxClock :
       /\ now' = t
       /\ summary' = buildSummary(results, t)
  /\ pc' = "built"
  /\ UNCHANGED <<results, markdown, renders, submit, health>>

\* renderMarkdown(summary); renders keeps the last two invocations
RenderMarkdown ==
  /\ pc \in {"built", "rendered"}
  /\ markdown' = renderMarkdown(summary)
  /\ renders' = LET all == Append(renders, [summary |-> summary,
                                             text |-> renderMarkdown(summary)])
                IN  IF Len(all) > 2 THEN Tail(all) ELSE all
  /\ pc' = "rendered"
  /\ UNCHANGED <<results, now, summary, submit, health>>

Next == BuildSummary \/ RenderMarkdown

Spec == Init /\ [][Next]_vars

(* ------------------------------- claims -------------------------------- *)
Built == pc \in {"built", "rendered"}

Indices == 1..Len(results)

Count(P(_)) == Cardinality({i \in Indices : P(i)})

RECURSIVE SumOver(_, _, _)
SumOver(obj, field, n) ==
  IF n = 0 THEN 0 ELSE SumOver(obj, field, n - 1) + obj[n].v[field]

RECURSIVE SumValues(_, _)
SumValues(obj, n) == IF n = 0 THEN 0 ELSE SumValues(obj, n - 1) + obj[n].v

\* C1: the three confidence buckets together count every finding that
\* carries a confidence value, a confidence of 0 included.
C1_BucketsCountDefined ==
  Built =>
    LET d == summary.confidence.distribution
    IN  d.high + d.medium + d.low
          = Count(LAMBDA i : "confidence" \in DOMAIN results[i])

\* the upper-cased severity of finding i, UNKNOWN when it has none
UpperSeverity(i) ==
  IF "severity" \in DOMAIN results[i] THEN toUpperCase(results[i].severity)
  ELSE sUNKNOWN

\* C5: bySeverity has the four canonical keys with values >= 0, every key
\* counts the findings whose upper-cased severity (UNKNOWN when absent) is
\* that key, and the values sum to findings.length = totalVulnerabilities.
C5_SeverityCounts ==
  Built =>
    LET bs == summary.overview.bySeverity
        upper == [i \in Indices |-> UpperSeverity(i)]
    IN  /\ \A k \in {sCRITICAL, sHIGH, sMEDIUM, sLOW} :
             \E i \in 1..Len(bs) : bs[i].k = k /\ bs[i].v >= 0
        /\ \A i, j \in 1..Len(bs) : bs[i].k = bs[j].k => i = j
        /\ \A i \in 1..Len(bs) :
             bs[i].v = Count(LAMBDA j : upper[j] = bs[i].k)
        /\ SumValues(bs, Len(bs)) = Len(results)
        /\ summary.overview.totalVulnerabilities = Len(results)

C5_Witness ==
  /\ pc = "built"
  /\ \E i \in Indices : "severity" \notin DOMAIN results[i]
  /\ \E i \in Indices : results[i] # << >> /\ "severity" \in DOMAIN results[i]
                          /\ results[i].severity = scritical
  /\ objGet(summary.overview.bySeverity, sCRITICAL, 0) = 1
  /\ objGet(summary.overview.bySeverity, sUNKNOWN, 0) = 1
  /\ objGet(summary.overview.bySeverity, sLOW, 1) = 0

\* C8: every ecosystem summary has count = size of its group,
\* critical + high <= count, fixable <= count, fixable = the group's
\* findings classified SAFE_PATCH, MINOR_BUMP or MAJOR_BUMP_SAFE; the counts
\* sum to findings.length.
C8_EcosystemCounters ==
  Built =>
    LET es == summary.ecosystems
        keyOf == [i \in Indices |-> ecosystemKey(results[i])]
        InGroup(i, eco) == keyOf[i] = eco
    IN  /\ \A n \in 1..Len(es) :
             LET e == es[n].v
             IN  /\ e.ecosystem = es[n].k
                 /\ e.count = Count(LAMBDA i : InGroup(i, es[n].k))
                 /\ e.count >= 1
                 /\ e.critical + e.high <= e.count
                 /\ e.fixable <= e.count
                 /\ e.fixable = Count(LAMBDA i :
                        /\ InGroup(i, es[n].k)
                        /\ "classification" \in DOMAIN results[i]
                        /\ results[i].classification \in
                             {sSAFE_PATCH, sMINOR_BUMP, sMAJOR_BUMP_SAFE})
        /\ SumOver(es, "count", Len(es)) = Len(results)

C8_Witness ==
  /\ pc = "built"
  /\ Len(summary.ecosystems) = 2
  /\ \E n \in 1..Len(summary.ecosystems) :
       LET e == summary.ecosystems[n].v
       IN  e.count = 1 /\ e.fixable = 1 /\ e.high = 1
  /\ \E i \in Indices : "classification" \in DOMAIN results[i]
                          /\ results[i].classification = sMAJOR_BUMP_SAFE

\* C10: the critical (high) counters of the ecosystem summaries sum to
\* overview.bySeverity.CRITICAL (HIGH), whatever the casing of the input
\* severities.
C10_OverviewAgreesWithEcosystems ==
  Built =>
    /\ SumOver(summary.ecosystems, "critical", Len(summary.ecosystems))
         = objGet(summary.overview.bySeverity, sCRITICAL, 0)
    /\ SumOver(summary.ecosystems, "high", Len(summary.ecosystems))
         = objGet(summary.overview.bySeverity, sHIGH, 0)

\* the confidence values carried by the findings
Carried == {results[i].confidence : i \in {j \in Indices : "confidence" \in DOMAIN results[j]}}

\* C6: with no confidence carried, average = minimum = 0; otherwise minimum
\* is the smallest carried confidence and minimum <= average <= maximum.
C6_AverageAndMinimum ==
  Built =>
    LET c == summary.confidence
    IN  IF Carried = {} THEN c.average = 0 /\ c.minimum = 0
        ELSE /\ c.minimum \in Carried
             /\ \A x \in Carried : c.minimum <= x
             /\ c.minimum <= c.average
             /\ \E x \in Carried : c.average <= x

\* the distinct elements of a sequence, each at its first position
RECURSIVE FirstSeen(_)
FirstSeen(seq) ==
  IF Len(seq) = 0 THEN << >>
  ELSE LET front == FirstSeen(SubSeq(seq, 1, Len(seq) - 1))
       IN  IF seq[Len(seq)] \in Range(front) THEN front
           ELSE Append(front, seq[Len(seq)])

EcosystemsFirstSeen == FirstSeen([i \in Indices |-> ecosystemKey(results[i])])

\* the lines between the "## Ecosystems" heading and the next blank line
EcosystemSection(text) ==
  LET h == CHOOSE i \in 1..Len(text) : text[i] = <<"## Ecosystems">>
      e == CHOOSE i \in (h + 1)..Len(text) :
             text[i] = <<"">> /\ \A j \in (h + 1)..(i - 1) : text[j] # <<"">>
  IN  SubSeq(text, h + 1, e - 1)

\* C4: ecosystems holds one summary per distinct ecosystem, and iterating it
\* (as the Ecosystems section of the report does) visits the ecosystems in
\* first-seen order, also for names made only of digits.
C4_EcosystemsInFirstSeenOrder ==
  /\ Built => objKeys(summary.ecosystems) = EcosystemsFirstSeen
  /\ pc = "rendered" =>
       LET sec == EcosystemSection(markdown)
       IN  /\ Len(sec) = Len(EcosystemsFirstSeen)
           /\ \A i \in 1..Len(sec) : sec[i][2] = EcosystemsFirstSeen[i]

\* the rank of a severity string: CRITICAL 0, HIGH 1, in any casing
RankOf(sev) ==
  LET upper == toUpperCase(sev)
  IN  IF upper = sCRITICAL THEN 0 ELSE IF upper = sHIGH THEN 1 ELSE 2

\* severe (in any casing) and safely actionable
Selected(r) ==
  /\ "severity" \in DOMAIN r
  /\ RankOf(r.severity) \in {0, 1}
  /\ "classification" \in DOMAIN r
  /\ r.classification \in {sSAFE_PATCH, sMINOR_BUMP}

\* the selection in stable rank order: the rank-0 findings in input order,
\* then the rank-1 findings in input order
StablyRanked ==
  LET sel == SelectSeq(results, Selected)
  IN  SelectSeq(sel, LAMBDA r : RankOf(r.severity) = 0)
        \o SelectSeq(sel, LAMBDA r : RankOf(r.severity) = 1)

\* C2: actionRequired.items has at most 10 items, every CRITICAL item
\* precedes every HIGH item, items of equal rank keep their input order, and
\* the items are the first min(10, k) of the k stably rank-sorted selected
\* findings.
C2_RankedStableTruncated ==
  Built =>
    LET items == summary.actionRequired.items
        expected == StablyRanked
        k == Len(expected)
    IN  /\ Len(items) <= 10
        /\ summary.actionRequired.count = Len(items)
        /\ \A i, j \in 1..Len(items) :
             i < j => RankOf(items[i].severity) <= RankOf(items[j].severity)
        /\ \A i, j \in 1..Len(items) :
             (i < j /\ RankOf(items[i].severity) = RankOf(items[j].severity))
               => items[i].id < items[j].id
        /\ Len(items) = (IF k < 10 THEN k ELSE 10)
        /\ \A i \in 1..Len(items) :
             /\ items[i].id = expected[i].cveId
             /\ items[i].severity = expected[i].severity
             /\ items[i].classification = expected[i].classification

C2_Witness ==
  /\ pc = "built"
  /\ Len(results) = 11
  /\ Len(StablyRanked) = 11
  /\ results[1].severity = sHIGH
  /\ results[11].severity = sCRITICAL
  /\ Len(summary.actionRequired.items) = 10
  /\ summary.actionRequired.items[1].id = 11

\* the identifiers of the ranked selection (before the truncation to 10)
RankedIds ==
  LET ranked == actionRanked(results)
  IN  {ranked[j].cveId : j \in 1..Len(ranked)}

\* C3 as stated: a finding is ranked iff its severity is CRITICAL or HIGH and
\* its classification SAFE_PATCH or MINOR_BUMP; every emitted item has the
\* severity CRITICAL or HIGH; no MAJOR_BUMP_SAFE finding is emitted.
C3_AsStated ==
  Built =>
    LET items == summary.actionRequired.items
        rankedIds == RankedIds
    IN  /\ \A i \in Indices :
             i \in rankedIds <=>
               /\ "severity" \in DOMAIN results[i]
               /\ results[i].severity \in {sCRITICAL, sHIGH}
               /\ "classification" \in DOMAIN results[i]
               /\ results[i].classification \in {sSAFE_PATCH, sMINOR_BUMP}
        /\ \A j \in 1..Len(items) : items[j].severity \in {sCRITICAL, sHIGH}
        /\ \A j \in 1..Len(items) : items[j].classification # sMAJOR_BUMP_SAFE

\* C3 (amended): a finding is ranked iff its upper-cased severity is
\* CRITICAL or HIGH and its classification SAFE_PATCH or MINOR_BUMP; every
\* emitted item has a severity that upper-cases to CRITICAL or HIGH (the
\* field is emitted as written); no MAJOR_BUMP_SAFE finding is emitted,
\* though it is counted as fixable in its ecosystem summary.
C3_SelectedIffSevereAndActionable ==
  Built =>
    LET items == summary.actionRequired.items
        rankedIds == RankedIds
    IN  /\ \A i \in Indices : i \in rankedIds <=> Selected(results[i])
        /\ \A j \in 1..Len(items) :
             /\ toUpperCase(items[j].severity) \in {sCRITICAL, sHIGH}
             /\ items[j].severity = results[items[j].id].severity
        /\ \A j \in 1..Len(items) : items[j].classification # sMAJOR_BUMP_SAFE
        /\ \A i \in Indices :
             ("classification" \in DOMAIN results[i]
                /\ results[i].classification = sMAJOR_BUMP_SAFE)
               => /\ i \notin rankedIds
                  /\ objGet(summary.ecosystems, ecosystemKey(results[i]),
                            [fixable |-> 0]).fixable >= 1

C3_Witness ==
  /\ pc = "built"
  /\ Len(results) = 2
  /\ results[1] # << >> /\ "severity" \in DOMAIN results[1]
  /\ "classification" \in DOMAIN results[1]
  /\ results[1].severity = sHIGH
  /\ results[1].classification = sMAJOR_BUMP_SAFE
  /\ "severity" \in DOMAIN results[2]
  /\ results[2].severity = scritical
  /\ Len(summary.actionRequired.items) = 1
  /\ summary.actionRequired.items[1].id = 2
  /\ summary.actionRequired.items[1].severity = scritical

\* the packageUrl of finding i, the empty string when it has none
UrlOf(i) == IF "packageUrl" \in DOMAIN results[i] THEN results[i].packageUrl ELSE << >>

\* the position of the first "/" after "pkg:", 0 when there is none
FirstSlash(u) ==
  IF \E p \in 5..Len(u) : u[p] = "/"
  THEN CHOOSE p \in 5..Len(u) : u[p] = "/" /\ \A q \in 5..(p - 1) : u[q] # "/"
  ELSE 0

\* u reads pkg:<ecosystem>/<rest> with a non-empty first path segment
HasPurlForm(u) ==
  /\ Len(u) >= 6
  /\ SubSeq(u, 1, 4) = <<"p","k","g",":">>
  /\ FirstSlash(u) > 5

FirstSegment(u) == SubSeq(u, 5, FirstSlash(u) - 1)

\* the segment is made of letters, digits and underscores only
WordSegment(u) ==
  \A p \in 5..(FirstSlash(u) - 1) :
    u[p] \in LowerSet \cup UpperSet \cup DigitSet \cup {"_"}

\* the names of the groups of byEcosystem that hold finding i
GroupsOf(byEcosystem, i) ==
  {byEcosystem[n].k : n \in {m \in 1..Len(byEcosystem) :
                               \E x \in 1..Len(byEcosystem[m].v) :
                                 byEcosystem[m].v[x].cveId = i}}

CompleteSummary ==
  /\ DOMAIN summary =
       {"generatedAt", "overview", "ecosystems", "actionRequired", "confidence"}
  /\ summary.overview.totalVulnerabilities = Len(results)

EqualExceptGeneratedAt(a, b) ==
  [a EXCEPT !.generatedAt = 0] = [b EXCEPT !.generatedAt = 0]

\* a report without its final line
Body(text) == SubSeq(text, 1, Len(text) - 1)

\* a step that invokes renderMarkdown
RenderStep == renders' # renders \/ (pc = "built" /\ pc' = "rendered")

\* C9: two renderings of summaries that are equal except for generatedAt
\* are the same text, line for line, except for the final Generated line
\* (which prints each summary's own generatedAt), and renderMarkdown leaves
\* the summary it is given unchanged.
C9_RenderDeterministic ==
  /\ [](\A a, b \in 1..Len(renders) :
          EqualExceptGeneratedAt(renders[a].summary, renders[b].summary)
            => /\ Len(renders[a].text) = Len(renders[b].text)
               /\ Body(renders[a].text) = Body(renders[b].text)
               /\ renders[a].text[Len(renders[a].text)]
                    = <<"_Generated: ", renders[a].summary.generatedAt, "_">>)
  /\ [][RenderStep => /\ summary' = summary
                      /\ renders'[Len(renders')].summary = summary
                      /\ renders'[Len(renders')].text = markdown']_vars

C9_Witness ==
  /\ pc = "rendered"
  /\ Len(renders) = 2
  /\ Len(results) = 2
  /\ renders[1].summary.generatedAt # renders[2].summary.generatedAt
  /\ renders[1].text # renders[2].text
  /\ markdown = renders[2].text
  /\ Len(summary.actionRequired.items) = 1
  /\ Len(summary.ecosystems) = 2

(* ------------------- MultipartClient.submitReport ---------------------- *)
\* submit is one call of submitReport: pc is the await the call is parked at
\* ("post", "sleep") or how it ended ("returned", "thrown"); posts is the log
\* of the axios.post attempts issued, sleeps the log of the _sleep delays
\* started, inFlight the number of requests not yet settled.
Reports == 1..NumReports
Errors == 1..NumErrors
ResponseData == {"accepted", "queued"}

summaryVars == <<results, pc, now, summary, markdown, renders>>

\* the form: the report part, one part per evidence file, the version part
buildForm(report, files) == [report |-> report, evidence |-> files, version |-> "2.1.0"]

\* axios.post(...) of the current attempt, with its X-Attempt header
issuePost(s, attempt) ==
  [s EXCEPT !.attempt = attempt,
            !.inFlight = s.inFlight + 1,
            !.posts = Append(s.posts, [attempt |-> attempt, form |-> s.form,
                                       status |-> "pending", error |-> 0]),
            !.pc = "post"]

\* the request of the current attempt settles
settlePost(s, status, error) ==
  [s EXCEPT !.inFlight = s.inFlight - 1,
            !.posts[Len(s.posts)].status = status,
            !.posts[Len(s.posts)].error = error]

\* mutant: the delay is started after the last attempt too
shouldSleepAlways(attempt) == attempt <= retries

\* if (attempt < this.retries)
shouldSleep(attempt) == attempt < retries

\* attempt++ and the loop test; past the last attempt the call throws
nextIteration(s) ==
  IF s.attempt + 1 <= retries
  THEN issuePost(s, s.attempt + 1)
  ELSE [s EXCEPT !.attempt = s.attempt + 1,
                 !.outcome = [kind |-> "throw", attempts |-> retries,
                              message |-> s.lastError],
                 !.pc = "thrown"]

\* submitReport(report, evidenceFiles) up to its first await
SubmitReport(report, files) ==
  /\ submit.pc = "idle"
  /\ submit' = issuePost([submit EXCEPT !.form = buildForm(report, files)], 1)
  /\ UNCHANGED <<summaryVars, health>>

\* the awaited post resolves: return response.data
PostResolved ==
  /\ submit.pc = "post"
  /\ \E data \in ResponseData :
       submit' = [settlePost(submit, "ok", 0) EXCEPT
                    !.outcome = [kind |-> "return", data |-> data],
                    !.pc = "returned"]
  /\ UNCHANGED <<summaryVars, health>>

\* the awaited post rejects: the catch block, up to the next await
PostRejected ==
  /\ submit.pc = "post"
  /\ \E err \in Errors :
       LET caught == [settlePost(submit, "failed", err) EXCEPT !.lastError = err]
       IN  submit' = IF shouldSleep(caught.attempt)
                     THEN [caught EXCEPT
                             !.sleeps = Append(caught.sleeps,
                                               [after |-> caught.attempt,
                                                ms |-> retryDelay * caught.attempt]),
                             !.pc = "sleep"]
                     ELSE nextIteration(caught)
  /\ UNCHANGED <<summaryVars, health>>

\* the awaited _sleep resolves: the next iteration of the loop
SleepElapsed ==
  /\ submit.pc = "sleep"
  /\ submit' = nextIteration(submit)
  /\ UNCHANGED <<summaryVars, health>>

SubmitInit ==
  /\ results = << >>
  /\ pc = "init"
  /\ now = 0
  /\ summary = NoSummary
  /\ markdown = << >>
  /\ renders = << >>
  /\ submit = SubmitIdle
  /\ health = HealthIdle

SubmitNext ==
  \/ \E report \in Reports, files \in 0..MaxFiles : SubmitReport(report, files)
  \/ PostResolved
  \/ PostRejected
  \/ SleepElapsed

SpecSubmit == SubmitInit /\ [][SubmitNext]_vars

\* every request settles (it has a 60 s timeout) and every timer fires
SpecSubmitFair ==
  SpecSubmit /\ WF_vars(PostResolved \/ PostRejected) /\ WF_vars(SleepElapsed)

FailedPosts == {i \in 1..Len(submit.posts) : submit.posts[i].status = "failed"}

SubmitSafety ==
  LET posts == submit.posts
      sleeps == submit.sleeps
      n == Len(posts)
  IN  \* one after another, numbered 1, 2, ..., at most 3, all with the same form
      /\ submit.inFlight \in {0, 1}
      /\ submit.inFlight = Cardinality({i \in 1..n : posts[i].status = "pending"})
      /\ n <= 3
      /\ \A i \in 1..n : posts[i].attempt = i /\ posts[i].form = submit.form
      \* an attempt is issued only after every earlier one has failed
      /\ \A i \in 1..n : i < n => posts[i].status = "failed"
      \* a success is returned, with its data, and ends the call
      /\ (n > 0 /\ posts[n].status = "ok")
           <=> (submit.pc = "returned" /\ submit.outcome.kind = "return")
      /\ submit.pc = "returned" => submit.outcome.data \in ResponseData
      \* the sleep after failed attempt i lasts 1000 * i; none after the last
      /\ \A i \in 1..Len(sleeps) :
           /\ sleeps[i].after = i
           /\ sleeps[i].ms = 1000 * i
           /\ i < 3
           /\ posts[i].status = "failed"
      /\ \A i \in FailedPosts : i < 3 => Len(sleeps) >= i
      /\ \A i \in 2..n : Len(sleeps) >= i - 1
      /\ submit.pc = "sleep" <=> (n > 0 /\ posts[n].status = "failed" /\ n < 3)
      \* the error is thrown after exactly 3 failed attempts
      /\ (submit.pc = "thrown" \/ submit.outcome.kind = "throw")
           => /\ n = 3
              /\ FailedPosts = 1..3
              /\ Len(sleeps) = 2
              /\ submit.outcome = [kind |-> "throw", attempts |-> 3,
                                   message |-> posts[3].error]
      /\ (n = 3 /\ posts[3].status = "failed") => submit.pc = "thrown"

\* C11: submitReport issues its POST attempts one after another, at most 3;
\* it returns the data of the first successful attempt and issues none after
\* it; it waits retryDelay * attempt after a failed attempt but not after the
\* last; it throws only after exactly 3 failed attempts; every call
\* eventually returns or throws.
C11_SubmitReportRetries ==
  /\ []SubmitSafety
  /\ (submit.pc # "idle") ~> (submit.pc \in {"returned", "thrown"})

C11_Witness ==
  /\ submit.pc = "returned"
  /\ Len(submit.posts) = 3
  /\ submit.posts[1].status = "failed"
  /\ submit.posts[2].status = "failed"
  /\ submit.posts[3].status = "ok"
  /\ submit.sleeps = <<[after |-> 1, ms |-> 1000], [after |-> 2, ms |-> 2000]>>
  /\ submit.outcome = [kind |-> "return", data |-> "queued"]

(* ---------------- DependencyHealthChecker.runFullCheck ----------------- *)
\* health is one call of runFullCheck: pc is "lookup" while the call awaits
\* checkPackage of entries[next], "done" once it has returned its report.
\* Version strings are sequences of characters.
PackageNames == <<"a", "b", "c", "d">>
Versions == {<<"1">>, <<"2">>}
DeclaredVersions == {<<"1">>, <<"^", "1">>, <<"~", "2">>}
LookupErrors == {"ETIMEDOUT", "E404"}

\* _loadDependencies(): the merged dependencies, names being distinct keys
PackageJsons ==
  UNION {[1..n -> DeclaredVersions] : n \in 0..MaxDeps}

entriesOf(declared) ==
  [i \in DOMAIN declared |-> [name |-> PackageNames[i], version |-> declared[i]]]

\* version.replace(/^[\^~]/, "")
stripRange(version) ==
  IF Len(version) > 0 /\ version[1] \in {"^", "~"} THEN Tail(version) ELSE version

\* what the registry may answer: dist-tags.latest present or not, and for
\* any of the versions an info object whose deprecated message may be set
VersionInfos == {[license |-> "MIT"], [license |-> "MIT", deprecated |-> "use v2"]}

RegistryData ==
  LET versionMaps == UNION {[vs -> VersionInfos] : vs \in SUBSET Versions}
  IN  {[versions |-> m] : m \in versionMaps}
        \cup {[latest |-> l, versions |-> m] : l \in Versions, m \in versionMaps}

\* data.versions?.[currentVersion] || {}
currentInfoOf(data, currentVersion) ==
  IF currentVersion \in DOMAIN data.versions
  THEN data.versions[currentVersion]
  ELSE [license |-> "UNKNOWN"]

\* the report of checkPackage, from the registry's answer; an undefined
\* latest is !== every version string
checkPackage(name, currentVersion, data) ==
  LET currentInfo == currentInfoOf(data, currentVersion)
  IN  [name |-> name,
       currentVersion |-> currentVersion,
       isOutdated |-> IF "latest" \in DOMAIN data
                      THEN data.latest # currentVersion
                      ELSE TRUE,
       isDeprecated |-> "deprecated" \in DOMAIN currentInfo,
       deprecationMessage |-> IF "deprecated" \in DOMAIN currentInfo
                              THEN currentInfo.deprecated
                              ELSE "null"]

\* Math.round(num / den) for den > 0: the nearest integer, halves upwards
mathRound(num, den) == (2 * num + den) \div (2 * den)

\* Math.round(((checked - outdated - deprecated) / total) * 100); 0 / 0 is NaN
healthScoreOf(checked, outdatedCount, deprecatedCount, total) ==
  IF total = 0
  THEN "NaN"
  ELSE mathRound((checked - outdatedCount - deprecatedCount) * 100, total)

\* the object runFullCheck returns; its second errors key, the array,
\* replaces the count
fullReport(h) ==
  LET outdatedCount == Len(SelectSeq(h.results, LAMBDA r : r.isOutdated))
      deprecatedCount == Len(SelectSeq(h.results, LAMBDA r : r.isDeprecated))
  IN  [totalDependencies |-> Len(h.entries),
       checked |-> Len(h.results),
       outdated |-> outdatedCount,
       deprecated |-> deprecatedCount,
       healthScore |-> healthScoreOf(Len(h.results), outdatedCount,
                                     deprecatedCount, Len(h.entries)),
       results |-> h.results,
       errors |-> h.errors]

\* the next entry of the loop, or the return once the entries are exhausted
nextEntry(h) ==
  IF h.next < Len(h.entries)
  THEN [h EXCEPT !.next = h.next + 1, !.pc = "lookup"]
  ELSE [h EXCEPT !.next = h.next + 1, !.report = fullReport(h), !.pc = "done"]

\* runFullCheck() up to its first await
RunFullCheck(declared) ==
  /\ health.pc = "idle"
  /\ health' = nextEntry([health EXCEPT !.entries = entriesOf(declared)])
  /\ UNCHANGED <<summaryVars, submit>>

\* the awaited checkPackage resolves: results.push(report)
CheckPackageResolved ==
  /\ health.pc = "lookup"
  /\ \E data \in RegistryData :
       LET entry == health.entries[health.next]
           report == checkPackage(entry.name, stripRange(entry.version), data)
       IN  health' = nextEntry([health EXCEPT !.results = Append(health.results, report)])
  /\ UNCHANGED <<summaryVars, submit>>

\* the awaited checkPackage rejects: errors.push({name, version, error})
CheckPackageRejected ==
  /\ health.pc = "lookup"
  /\ \E err \in LookupErrors :
       LET entry == health.entries[health.next]
           failed == [name |-> entry.name, version |-> entry.version, error |-> err]
       IN  health' = nextEntry([health EXCEPT !.errors = Append(health.errors, failed)])
  /\ UNCHANGED <<summaryVars, submit>>

HealthInit ==
  /\ results = << >>
  /\ pc = "init"
  /\ now = 0
  /\ summary = NoSummary
  /\ markdown = << >>
  /\ renders = << >>
  /\ submit = SubmitIdle
  /\ health = HealthIdle

HealthNext ==
  \/ \E declared \in PackageJsons : RunFullCheck(declared)
  \/ CheckPackageResolved
  \/ CheckPackageRejected

SpecHealth == HealthInit /\ [][HealthNext]_vars

\* C12: for every finished run of runFullCheck over at least one dependency,
\* checked plus the number of failed lookups is totalDependencies and
\* healthScore is an integer in 0..100.
C12_CheckedAndScoreInRange ==
  (health.pc = "done" /\ Len(health.entries) >= 1)
    => /\ health.report.checked + Len(health.report.errors)
            = health.report.totalDependencies
       /\ health.report.healthScore \in 0..100

====
